---- MODULE Spec2Model ----
(***************************************************************************)
(* Model of the proxyc preload library: the hooked connect                 *)
(* (libproxyc/src/hook/connect.rs) and the chain engine                    *)
(* (libproxyc/src/core.rs), over a small kernel model of file descriptors, *)
(* open file descriptions and errno.                                       *)
(***************************************************************************)
EXTENDS Integers, Sequences, FiniteSets, TLC

\* ------------------------------------------------------------------ bounds
MaxProxies == 2
MaxIgnore == 1
AddrBits == 1
MaxPort == 2
MaxIdx == 2
MaxTimeout == 3
MaxClock == 6
MaxBuf == 2

\* ------------------------------------------------------- program constants
default_tcp_connect == 8000
default_tcp_read == 15000
default_dns_subnet == 224
BufSize == 1024

\* ------------------------------------------------------------ value spaces
Pow2(n) == 2 ^ n

Addrs == 0..(Pow2(AddrBits) - 1)
Ports == 1..MaxPort

ProxyType == {"Raw", "Http", "Socks4", "Socks5"}
ChainType == {"Strict", "Dynamic", "Random"}

\* std::net::IpAddr: V4 or V6 with a (narrowed) address value
IpAddr == [v : {4, 6}, a : Addrs]

\* ProxyConf {proto, ip, port, auth}; Option<Auth> is the empty set or a singleton
ProxyConf == [proto : ProxyType, ip : IpAddr, port : Ports, auth : SUBSET {"UserPassword"}]

\* the proxies a configuration of this model lists: IPv4 hops without auth
ConfiguredProxy == {p \in ProxyConf : p.ip = [v |-> 4, a |-> 1] /\ p.port = 1 /\ p.auth = {}}

\* Ipv4Cidr: a network address whose host bits are zero, and a prefix length
Ipv4Cidr == {c \in [addr : Addrs, len : 0..AddrBits] : c.addr % Pow2(AddrBits - c.len) = 0}

\* IgnoreSubnet {cidr, port: Option<u16>}
IgnoreSubnet == [cidr : Ipv4Cidr, port : {{}} \cup {{p} : p \in Ports}]

SeqsUpTo(S, n) == UNION {[1..k -> S] : k \in 0..n}

\* ProxycConfig; proxies is non-empty (spec 3, Config)
ProxycConfig == [proxies : SeqsUpTo(ConfiguredProxy, MaxProxies) \ {<<>>},
                 chain_type : ChainType,
                 tcp_read_timeout : {default_tcp_read},
                 tcp_connect_timeout : {default_tcp_connect},
                 proxy_dns : {TRUE},
                 dns_subnet : {default_dns_subnet},
                 ignore_subnets : SeqsUpTo(IgnoreSubnet, MaxIgnore)]

\* the sockaddr pointer handed to connect: null, or a sockaddr of some family
NullAddr == [family |-> "Null", ip |-> [v |-> 4, a |-> 0], port |-> 0]
UnixAddr == [family |-> "Unix", ip |-> [v |-> 4, a |-> 0], port |-> 0]
InetAddrs == {[family |-> "Inet", ip |-> [v |-> 4, a |-> a], port |-> p] : a \in Addrs, p \in Ports}
Inet6Addrs == {[family |-> "Inet6", ip |-> [v |-> 6, a |-> a], port |-> p] : a \in Addrs, p \in Ports}
SockAddrPtr == {NullAddr, UnixAddr} \cup InetAddrs \cup Inet6Addrs

\* socklen_t passed along with the pointer
SockLen(address) ==
    CASE address.family = "Inet" -> 16
      [] address.family = "Inet6" -> 28
      [] address.family = "Unix" -> 110
      [] OTHER -> 0

SockType == {"Stream", "Datagram"}
OFlag == {"O_NONBLOCK"}

\* file descriptor numbers of the process and open file descriptions
FdNums == {3, 4}
Descs == {"caller", "scratch"}

VARIABLES
    config,      \* core::CONFIG
    fds,         \* kernel: fd number -> open file description ("closed" if none)
    ofd,         \* kernel: open file description -> [type, flags, peer]
    errno,       \* thread-local errno
    pc,          \* position of the hooked connect invocation
    args,        \* (sock, address, len) of the invocation
    ns,          \* scratch fd of the invocation, 0 before socket()
    flags_orig,  \* flags saved by the hook
    hop,         \* index of the window the engine is at
    ret,         \* value returned by the hook
    path,        \* "none", "bypass" or "chain": decision of the admission check
    entry_flags, \* file-status flags of the caller's fd on entry
    log,         \* calls made by the invocation, in order
    table,       \* INTERNALADDR.table: index -> hostname
    idx,         \* INTERNALADDR.idx
    mutex,       \* the Mutex around INTERNALADDR: "free" or "poisoned"
    thr,         \* per thread: the resolver / driver call it is inside
    firstAddr,   \* per name: the first address assign returned for it (none: {})
    exhausted,   \* the counter has once been beyond the last valid index
    last,        \* the call that completed last, with its result
    http,        \* one run of the HTTP driver: the proxy's response and the driver's result
    pollst,      \* one run of util::poll_retry: its locals, the clock and the time waited
    conf,        \* the loading of a configuration: the proxy entries accepted so far
    tc,          \* one run of core::timed_connect around poll_retry
    rd,          \* one run of util::read_timeout around poll_retry
    wire         \* one run of a SOCKS driver on bytes: its input, what it wrote and read

hookVars == <<config, fds, ofd, errno, pc, args, ns, flags_orig, hop, ret, path, entry_flags, log>>
dnsVars == <<table, idx, mutex, thr, firstAddr, exhausted, last>>
restVars == <<conf, tc, rd, wire>>
vars == <<hookVars, dnsVars, http, pollst, restVars>>

\* what the hooked connect leaves alone
otherVars == <<dnsVars, http, pollst, restVars>>
\* what the resolver hooks and the reverse lookup leave alone
nonDnsVars == <<hookVars, http, pollst, restVars>>

\* ----------------------------------------------------------------- helpers
Last(s) == s[Len(s)]

\* one entry of the call log
NoHop == [proto |-> "Raw", ip |-> [v |-> 4, a |-> 0], port |-> 0, auth |-> {}]

Ev(op, fd, ok) ==
    [op |-> op, fd |-> fd, ok |-> ok,
     hop |-> 0,           \* chain_step: index of the proxy spoken to
     drv |-> "none",      \* chain_step: the driver that ran
     to |-> NoHop,        \* timed_connect, chain_step: the hop asked for
     io |-> FALSE,        \* bytes were written to or read from fd
     timeout |-> 0,       \* timed_connect: the budget
     addr |-> NullAddr,   \* connect: the sockaddr passed
     len |-> 0,           \* connect: the length passed
     sent |-> <<>>,       \* chain_step: the messages the driver wrote, in order
     authrep |-> <<>>,    \* chain_step: the reply read to a user/password message
     methods |-> <<>>,    \* chain_step: the bytes of the SOCKS5 method selection written
     selected |-> <<>>,   \* chain_step: the method of the selection reply, once accepted
     creds |-> {},        \* chain_step: the Auth whose user and password were written
     atyp |-> 0]          \* chain_step: ATYP of the SOCKS5 request written

\* core::from_libc_sockaddr: Option<SockAddr>, None for null and for other families
from_libc_sockaddr(address) ==
    IF address.family = "Null" THEN {}
    ELSE IF address.family \in {"Inet", "Inet6"} THEN {address}
    ELSE {}

\* Ipv4Cidr::contains
Contains(cidr, a) == (a \div Pow2(AddrBits - cidr.len)) = (cidr.addr \div Pow2(AddrBits - cidr.len))

\* variant: an entry matches only when both its port and its cidr match
IgnoredBoth(i, target_ip, target_port) ==
    /\ \E p \in i.port : p = target_port
    /\ target_ip.v = 4 /\ Contains(i.cidr, target_ip.a)

\* body of the loop over ignore_subnets in check_socket
Ignored(i, target_ip, target_port) ==
    \/ \E p \in i.port : p = target_port
    \/ target_ip.v = 4 /\ Contains(i.cidr, target_ip.a)

\* variant: the socket type is not looked at
ProxyableAnyType(fam, socktype) == fam = "Inet" \/ fam = "Inet6"

\* the family / socket type test of check_socket
Proxyable(fam, socktype) == (fam = "Inet" \/ fam = "Inet6") /\ socktype = "Stream"

\* hook::connect::check_socket
check_socket(socktype, addr, cfg) ==
    IF ~Proxyable(addr.family, socktype) THEN "Err"
    ELSE IF cfg.ignore_subnets = <<>> THEN "Ok"
    ELSE IF \E k \in 1..Len(cfg.ignore_subnets) : Ignored(cfg.ignore_subnets[k], addr.ip, addr.port)
         THEN "Err"
         ELSE "Ok"

\* variant: the truncation loses O_NONBLOCK
from_bits_dropped(f) == f \ {"O_NONBLOCK"}

\* OFlag::from_bits_truncate
from_bits_truncate(f) == f \cap OFlag

\* lowest free descriptor number, as socket() hands it out
LowestFree(n) == fds[n] = "closed" /\ \A m \in FdNums : m < n => fds[m] # "closed"

\* the description is released when no descriptor refers to it any more
Release(f, o) == [d \in Descs |-> IF \E n \in FdNums : f[n] = d THEN o[d]
                                  ELSE [open |-> FALSE, type |-> o[d].type, flags |-> {}, peer |-> <<>>]]

\* ------------------------------------------------------------------ Init
\* ------------------------------------------------- the fake DNS: value spaces
\* indexes are 24 bits wide (idx & 0x00FFFFFF), the counter is a u32; both are narrowed,
\* the counter staying wider than the index
IdxSpace == MaxIdx + 1
CounterSpace == 2 * IdxSpace

Hostnames == {"a.test", "b.test"}

\* the names inet_aton / inet_pton parse, with the address they parse to
NumericIp == [n \in {"10.0.0.1"} |-> [v |-> 4, a |-> 10 * IdxSpace + 1]]

Names == Hostnames \cup DOMAIN NumericIp

\* no String: an absent HashMap entry, Option::None, Err(MissingData)
NoName == ""

\* the threads of the host program
Threads == {"t1", "t2"}

NoTarget == [v |-> 4, a |-> 0]

\* next-hop addresses handed to the SOCKS5 driver: the first address of the dns subnet,
\* and an IPv4 and an IPv6 address outside of it with the same low bits
Targets == {[v |-> 4, a |-> default_dns_subnet * IdxSpace + 1],
            [v |-> 4, a |-> 10 * IdxSpace + 1],
            [v |-> 6, a |-> default_dns_subnet * IdxSpace + 1]}

ThrIdle == [pc |-> "idle", op |-> "none", name |-> NoName, target |-> NoTarget,
            numerichost |-> FALSE]

\* of a getaddrinfo call also: whether AI_NUMERICHOST was set in the hints, what became of
\* the block it allocated, and whether *res was written
NoCall == [op |-> "none", name |-> NoName, target |-> NoTarget, via |-> "none", ok |-> TRUE,
           addr |-> NoTarget, atyp |-> 0, host |-> NoName, ret |-> "none",
           numerichost |-> FALSE, block |-> "none", res |-> FALSE]

\* INTERNALADDR after InternalIpAddr::new(), no thread inside a call
DnsIdle ==
    /\ table = [i \in 0..MaxIdx |-> NoName]
    /\ idx = 0
    /\ mutex = "free"
    /\ thr = [t \in Threads |-> ThrIdle]
    /\ firstAddr = [n \in Names |-> {}]
    /\ exhausted = FALSE
    /\ last = NoCall

\* ------------------------------------------------- the HTTP driver: value spaces
\* bytes are written as one-character strings, CR and LF by name
CRLFCRLF == <<"CR", "LF", "CR", "LF">>

Str9(a, b, c, d, e, f, g, h, i) == <<a, b, c, d, e, f, g, h, i>>

\* how a response starts: a status line of HTTP/1.0 or HTTP/1.1 with status 200 or 407,
\* nine other bytes followed by 200, a status line cut after two digits, a single byte,
\* an empty line pair followed by five bytes and 200
Heads == {Str9("H", "T", "T", "P", "/", "1", ".", "0", " ") \o <<"2", "0", "0">>,
          Str9("H", "T", "T", "P", "/", "1", ".", "1", " ") \o <<"2", "0", "0">>,
          Str9("H", "T", "T", "P", "/", "1", ".", "1", " ") \o <<"4", "0", "7">>,
          Str9("X", "X", "X", "X", "X", "X", "X", "X", "X") \o <<"2", "0", "0">>,
          Str9("H", "T", "T", "P", "/", "1", ".", "1", " ") \o <<"2", "0">>,
          <<"x">>,
          CRLFCRLF \o <<"x", "x", "x", "x", "x", "2", "0", "0">>}

\* how many bytes follow the head before the response ends or terminates: none, one,
\* as many as put the end of the terminator around the end of the buffer, or more
Pads == {0, 1} \cup ((BufSize - 18)..(BufSize - 14)) \cup {BufSize}

\* the bytes the proxy sends before it goes silent or closes
HttpBytes(r) == r.head \o [i \in 1..r.pad |-> "x"] \o (IF r.term THEN CRLFCRLF ELSE <<>>)

HttpIdle == [head |-> <<"x">>, pad |-> 0, term |-> FALSE, pc |-> "idle", ok |-> FALSE, len |-> 0]

\* ------------------------------------------------- poll_retry: value spaces
PollIdle == [pc |-> "idle", timeout |-> 0, remaining |-> 0, elapsed |-> 0, waited |-> 0,
             ret |-> "none", result |-> "none", intr |-> FALSE]

\* ------------------------------------------------- configuration loading: value spaces
\* an element of the `proxy` array before it is parsed: a URL string or a table. Of a URL
\* the scheme, the kind of host, whether a port, a user name and a password are given;
\* of a table the `type`, the kind of `ip`, whether `port` is given and whether `auth` is
\* (as UserPassword, that is with both)
UrlEntry == [form : {"url"}, type : {"socks4", "socks5", "http", "raw", "ftp"},
             ip : {"ipv4", "domain", "none"}, port : BOOLEAN,
             user : BOOLEAN, password : BOOLEAN]
TableEntry == {e \in [form : {"table"}, type : {"socks4", "socks5", "http", "raw", "ftp"},
                       ip : {"ipv4", "ipv6", "domain", "none"}, port : BOOLEAN,
                       user : BOOLEAN, password : BOOLEAN] : e.user = e.password}
Entry == UrlEntry \cup TableEntry

ConfIdle == [pc |-> "idle", proxies |-> <<>>, forms |-> <<>>]

TcIdle == [pc |-> "idle", res |-> "zero", soerr |-> "zero", ok |-> FALSE, flags |-> {},
           errno |-> "OK"]
RdIdle == [pc |-> "idle", buflen |-> 0, buf |-> <<>>, eof |-> FALSE, lastret |-> "none",
           result |-> "none"]

\* ------------------------------------------------- the SOCKS drivers on bytes: value spaces
\* next hops: std::net::IpAddr as its octets, and a port
Ipv4Octets == {<<93, 184, 216, 34>>, <<224, 0, 0, 1>>, <<10, 0, 1, 2>>}
WireTargets == [v : {4}, octets : Ipv4Octets, port : {80, 1080, 65534}]
                   \cup [v : {6}, octets : {<<32, 1, 13, 184, 0, 0, 0, 0, 0, 0, 0, 0, 0, 0, 1, 2>>},
                         port : {80, 1080, 65534}]

\* what find_ip_hostname returns for the next hop, an Option<String> as a set of byte
\* sequences: None, "example.com", "a", the empty name, a name of 256 bytes
WireNames == {{}, {<<101, 120, 97, 109, 112, 108, 101, 46, 99, 111, 109>>}, {<<97>>}, {<<>>},
              {[i \in 1..256 |-> 97]}}

\* the bound address and port that end a SOCKS5 reply with the given ATYP
ReplyTail(atyp) ==
    CASE atyp = 1 -> <<0, 0, 0, 0, 0, 0>>
      [] atyp = 4 -> [i \in 1..18 |-> 0]
      [] OTHER -> <<1, 120, 0, 0>>

\* what the proxy sends back: a SOCKS5 reply (header and tail) or a SOCKS4 reply, whole or
\* cut short by `cut` bytes, followed by `more` bytes of the tunnel
Socks5Replies == {<<ver, rep, rsv, atyp>> \o ReplyTail(atyp) :
                      ver \in {4, 5}, rep \in {0, 1, 8, 9}, rsv \in {0, 1}, atyp \in {1, 3, 4}}
Socks4Replies == {<<vn, cd, 0, 80, 10, 0, 1, 2>> : vn \in {0, 4}, cd \in {90, 91, 92, 93, 0}}

WireIdle == [pc |-> "idle", drv |-> "none", target |-> CHOOSE t \in WireTargets : TRUE,
             hn |-> {}, reply |-> <<>>, stream |-> <<>>, eof |-> FALSE, sent |-> <<>>,
             consumed |-> 0, ok |-> FALSE, err |-> "none"]

\* no configuration is being loaded, no timed_connect, read_timeout or driver is running
\* alone
RestIdle ==
    /\ conf = ConfIdle
    /\ tc = TcIdle
    /\ rd = RdIdle
    /\ wire = WireIdle

\* ------------------------------------------------- initial states
\* the process before the host program calls connect on its socket of type t with flags f
HookIdle(t, f) ==
    /\ fds = [n \in FdNums |-> IF n = 3 THEN "caller" ELSE "closed"]
    /\ ofd = [d \in Descs |-> IF d = "caller"
                             THEN [open |-> TRUE, type |-> t, flags |-> f, peer |-> <<>>]
                             ELSE [open |-> FALSE, type |-> "Stream", flags |-> {}, peer |-> <<>>]]
    /\ errno = "OK"
    /\ pc = "idle"
    /\ args = [sock |-> 3, address |-> NullAddr, len |-> 0]
    /\ ns = 0
    /\ flags_orig = {}
    /\ hop = 0
    /\ ret = 0
    /\ path = "none"
    /\ entry_flags = {}
    /\ log = <<>>

Init ==
    /\ config \in ProxycConfig
    /\ \E t \in SockType, f \in SUBSET OFlag : HookIdle(t, f)
    /\ DnsIdle
    /\ http = HttpIdle
    /\ pollst = PollIdle
    /\ RestIdle

\* ------------------------------------------------- the hooked connect
\* the host program calls connect(sock, address, len)
Call ==
    /\ pc = "idle"
    /\ \E address \in SockAddrPtr :
          args' = [sock |-> 3, address |-> address, len |-> SockLen(address)]
    /\ entry_flags' = ofd[fds[3]].flags
    /\ pc' = "entry"
    /\ UNCHANGED <<config, fds, ofd, errno, ns, flags_orig, hop, ret, path, log>>
    /\ UNCHANGED otherVars

\* hook/connect.rs 55-62: from_libc_sockaddr and check_socket decide the path
Dispatch ==
    /\ pc = "entry"
    /\ LET addr_opt == from_libc_sockaddr(args.address) IN
         IF addr_opt # {} /\ \A addr \in addr_opt :
                                check_socket(ofd[fds[args.sock]].type, addr, config) = "Ok"
         THEN pc' = "socket" /\ path' = "chain"
         ELSE pc' = "real_connect" /\ path' = "bypass"
    /\ UNCHANGED <<config, fds, ofd, errno, args, ns, flags_orig, hop, ret, entry_flags, log>>
    /\ UNCHANGED otherVars

\* hook/connect.rs 63-66: socket(); on error the hook returns -1
OpenScratch ==
    /\ pc = "socket"
    /\ \/ \E n \in FdNums :
            /\ LowestFree(n)
            /\ fds' = [fds EXCEPT ![n] = "scratch"]
            /\ ofd' = [ofd EXCEPT !["scratch"] =
                          [open |-> TRUE, type |-> "Stream", flags |-> {}, peer |-> <<>>]]
            /\ ns' = n
            /\ log' = Append(log, Ev("socket", n, TRUE))
            /\ pc' = "getfl"
            /\ UNCHANGED <<errno, ret>>
       \/ /\ errno' = "EMFILE"
          /\ ret' = -1
          /\ log' = Append(log, Ev("socket", 0, FALSE))
          /\ pc' = "returned"
          /\ UNCHANGED <<fds, ofd, ns>>
    /\ UNCHANGED <<config, args, flags_orig, hop, path, entry_flags>>
    /\ UNCHANGED otherVars

\* hook/connect.rs 71-80: save the flags, clear O_NONBLOCK when it is set
SaveFlags ==
    /\ pc = "getfl"
    /\ \/ /\ flags_orig' = from_bits_truncate(ofd[fds[args.sock]].flags)
          /\ IF "O_NONBLOCK" \in flags_orig'
             THEN \/ /\ ofd' = [ofd EXCEPT ![fds[args.sock]].flags = flags_orig' \ {"O_NONBLOCK"}]
                     /\ pc' = "engine"
                     /\ UNCHANGED errno
                  \/ /\ errno' = "EBADF"
                     /\ pc' = "panicked"
                     /\ UNCHANGED ofd
             ELSE pc' = "engine" /\ UNCHANGED <<ofd, errno>>
          /\ UNCHANGED ret
       \/ /\ errno' = "EBADF"
          /\ ret' = -1
          /\ pc' = "returned"
          /\ UNCHANGED <<ofd, flags_orig>>
    /\ UNCHANGED <<config, fds, args, ns, hop, path, entry_flags, log>>
    /\ UNCHANGED otherVars

\* ------------------------------------------------------ the chain engine
\* core::timed_connect(fd, addr, timeout), given what the kernel answers:
\*   res    result of the underlying connect: "zero", "einprogress", "error"
\*   poll   what poll_retry returns: "ready" (1 fd), "none" (0 fds), "timeout", "error"
\*   eintr  poll was interrupted by a signal before it returned
\*   soerr  SO_ERROR read by getsockopt: "zero", "nonzero", "fail"
\* Yields whether it returned Ok, whether the stream is connected, the flags it leaves
\* on the description, and errno.
timed_connect(res, poll, eintr, soerr) ==
    IF res = "einprogress" /\ ~(poll = "ready" /\ soerr = "zero")
    THEN \* early return inside the EINPROGRESS branch (core.rs 104-113)
         [ok |-> FALSE, connected |-> FALSE, flags |-> {"O_NONBLOCK"},
          errno |-> IF eintr \/ poll = "error" THEN "EINTR" ELSE "EINPROGRESS"]
    ELSE IF res = "zero"
         THEN [ok |-> TRUE, connected |-> TRUE, flags |-> {}, errno |-> "OK"]
         ELSE IF res = "einprogress"
              THEN \* Errno::result(res) reads errno as it is now (core.rs 123-127)
                   [ok |-> ~eintr, connected |-> TRUE, flags |-> {},
                    errno |-> IF eintr THEN "EINTR" ELSE "EINPROGRESS"]
              ELSE [ok |-> FALSE, connected |-> FALSE, flags |-> {}, errno |-> "ENETUNREACH"]

ConnectRes == {"zero", "einprogress", "error"}
PollRes == {"ready", "none", "timeout", "error"}
SoErr == {"zero", "nonzero", "fail"}

\* ------------------------------------------------- the fake DNS: operators
\* variant: the fake DNS is used whatever the configuration says
proxy_dns_always(cfg) == TRUE

\* `if config.proxy_dns` of the resolver hooks and of find_ip_hostname
proxy_dns_on(cfg) == cfg.proxy_dns

\* core::contains_numeric_ip: inet_aton or inet_pton parse the name
contains_numeric_ip(name) == name \in DOMAIN NumericIp

\* InternalIpAddr::make_addr: dns_subnet as leading octet, the low bits of idx below it
make_addr(i, cfg) == [v |-> 4, a |-> cfg.dns_subnet * IdxSpace + (i % IdxSpace)]

\* InternalIpAddr::get_hostname: map.get(idx & 0x00FFFFFF); NoName is Err(MissingData)
get_hostname(tbl, i) == tbl[i % IdxSpace]

\* InternalIpAddr::assign_addr on table tbl with counter i: the counter is incremented
\* first (u32, wrapping), then tested against the last index, then the entries below
\* it are scanned for the hostname, then the hostname is inserted under the counter
assign_addr(tbl, i, hn, cfg) ==
    LET n == (i + 1) % CounterSpace
        found == {j \in 1..(n - 1) : tbl[j] = hn}
    IN  IF n > MaxIdx
        THEN [ok |-> FALSE, addr |-> NoTarget, table |-> tbl, idx |-> n]
        ELSE IF n > 1 /\ found # {}
        THEN [ok |-> TRUE, addr |-> make_addr(CHOOSE j \in found : \A k \in found : j <= k, cfg),
              table |-> tbl, idx |-> n]
        ELSE [ok |-> TRUE, addr |-> make_addr(n, cfg),
              table |-> [tbl EXCEPT ![n] = hn], idx |-> n]

\* variant: the reverse lookup takes every IPv4 address for one of the dns subnet
find_ip_hostname_any_subnet(ip, cfg, tbl) ==
    IF ~proxy_dns_on(cfg) THEN NoName
    ELSE IF ip.v = 4 THEN get_hostname(tbl, ip.a)
    ELSE NoName

\* socks.rs find_ip_hostname
find_ip_hostname(ip, cfg, tbl) ==
    IF ~proxy_dns_on(cfg) THEN NoName
    ELSE IF ip.v = 4 /\ ip.a \div IdxSpace = cfg.dns_subnet THEN get_hostname(tbl, ip.a)
    ELSE NoName

\* the address part of the SOCKS5 request (write_hostname / write_addr)
socks5_request(ip, hn) ==
    IF hn # NoName THEN [atyp |-> 3, host |-> hn]
    ELSE IF ip.v = 4 THEN [atyp |-> 1, host |-> NoName]
    ELSE [atyp |-> 4, host |-> NoName]

\* ------------------------------------------------- the drivers
\* replies to the SOCKS5 method selection and to the user/password message: two bytes,
\* or <<>> when the read times out or the stream ends
NegReply == {<<>>} \cup ({4, 5} \X {0, 2, 255})
AuthReply == {<<>>} \cup ({1, 5} \X {0, 1})

\* what a proxy answers to a handshake: to the tunnel request and, when it speaks SOCKS5,
\* to the two messages before it
Reply == [kind : {"granted", "refused", "timeout"}, neg : NegReply, auth : AuthReply]

\* the answers that make a difference to the driver of proxy `from`
Replies(from) ==
    {r \in Reply : /\ from.proto # "Socks5" => r.neg = <<>>
                   /\ (from.proto # "Socks5" \/ from.auth = {}) => r.auth = <<>>}

\* variant: the status byte of the user/password reply is not looked at
authenticate_any_status(auth, rep) == auth = {} \/ (rep # <<>> /\ rep[1] = 1)

\* Socks5::authenticate (socks.rs 187-224) with credentials of valid lengths: nothing to
\* do without auth, else the reply must be read and be <<1, 0>>
authenticate(auth, rep) == auth = {} \/ (rep # <<>> /\ rep[1] = 1 /\ rep[2] = 0)

\* Socks5::auth_id (socks.rs 158-163)
auth_id(auth) == IF auth # {} THEN 2 ELSE 0

\* the method selection packet (socks.rs 229-238): the count is taken from the auth of
\* the hop asked for, the method from the auth of the proxy spoken to
methods_packet(to, auth) == <<5, IF to.auth # {} THEN 2 ELSE 1, auth_id(auth)>>

\* Socks5::connect (socks.rs 226-284): method selection, authenticate, request
socks5_connect(to, auth, reply) ==
    LET negotiated == reply.neg # <<>> /\ reply.neg[1] = 5 /\ reply.neg[2] # 255
        authed == negotiated /\ authenticate(auth, reply.auth)
        request == socks5_request(to.ip, find_ip_hostname(to.ip, config, table))
    IN  [drv |-> "Socks5", io |-> TRUE,
         atyp |-> IF authed THEN request.atyp ELSE 0,
         ok |-> authed /\ reply.kind = "granted",
         sent |-> <<"methods">> \o (IF negotiated /\ auth # {} THEN <<"auth">> ELSE <<>>)
                                \o (IF authed THEN <<"request">> ELSE <<>>),
         authrep |-> IF negotiated /\ auth # {} THEN reply.auth ELSE <<>>,
         methods |-> methods_packet(to, auth),
         selected |-> IF negotiated THEN <<reply.neg[2]>> ELSE <<>>,
         creds |-> IF negotiated THEN auth ELSE {}]

\* variant: the driver is handed the auth of the hop asked for
auth_arg_target(from, to) == to.auth

\* the auth chain_step hands to the driver: from.auth.as_ref() (core.rs 190-192)
auth_arg(from, to) == from.auth

\* core::chain_step(sock, from, to): the driver of from's protocol asks for a tunnel
\* to `to`. Yields whether it returned Ok and whether it did I/O on the stream.
chain_step(from, to, reply) ==
    LET other(drv, ok, io) == [drv |-> drv, ok |-> ok, io |-> io,
                               sent |-> IF io THEN <<"request">> ELSE <<>>, authrep |-> <<>>,
                               atyp |-> 0, methods |-> <<>>, selected |-> <<>>,
                               creds |-> {}]
    IN  CASE from.proto = "Raw" -> other("Raw", TRUE, FALSE)
          [] from.proto = "Http" -> other("Http", reply.kind = "granted", TRUE)
          [] from.proto = "Socks4" ->
                IF to.ip.v = 4 THEN other("Socks4", reply.kind = "granted", TRUE)
                ELSE other("Socks4", FALSE, FALSE)
          [] from.proto = "Socks5" -> socks5_connect(to, auth_arg(from, to), reply)

\* the ProxyConf connect_proxyc builds from the target sockaddr (core.rs 201-214)
target_conf(target) == [proto |-> "Raw", ip |-> target.ip, port |-> target.port, auth |-> {}]

\* variant: Dynamic is run like Strict
ChainHandledDynamic(ct) == ct \in {"Strict", "Dynamic"}

\* the match on config.chain_type (core.rs 223-248)
ChainHandled(ct) == ct = "Strict"

\* variant: the result of a step is dropped
AfterStepIgnored(ok, next) == next

\* the `?` after each step: go on when it returned Ok, leave the engine otherwise
AfterStep(ok, next) == IF ok THEN next ELSE "engine_err"

\* variant: the window is read one position too early
NextHopEarly(proxies, i, target) ==
    IF i < Len(proxies) THEN proxies[i] ELSE target_conf(target)

\* `to` of the i-th chain_step: the next configured proxy, the target after the last
NextHop(proxies, i, target) ==
    IF i < Len(proxies) THEN proxies[i + 1] ELSE target_conf(target)

\* core.rs 223-232: chain_start connects the scratch fd to the first proxy
ChainStart ==
    /\ pc = "engine"
    /\ ChainHandled(config.chain_type)
    /\ \E res \in ConnectRes, poll \in PollRes, eintr \in BOOLEAN, soerr \in SoErr :
          LET r == timed_connect(res, poll, eintr, soerr)
              first == config.proxies[1]
          IN  /\ ofd' = [ofd EXCEPT ![fds[ns]].flags = r.flags,
                                    ![fds[ns]].peer = IF r.connected THEN <<first>> ELSE <<>>]
              /\ errno' = IF r.errno = "OK" THEN errno ELSE r.errno
              /\ log' = log \o <<Ev("connect_proxyc", ns, TRUE),
                                  [Ev("timed_connect", ns, r.ok) EXCEPT
                                      !.to = first, !.io = TRUE,
                                      !.timeout = config.tcp_connect_timeout]>>
              /\ pc' = AfterStep(r.ok, IF Len(config.proxies) > 1 THEN "chain_step" ELSE "chain_target")
    /\ hop' = 1
    /\ UNCHANGED <<config, fds, args, ns, flags_orig, ret, path, entry_flags>>
    /\ UNCHANGED otherVars

\* core.rs 247: any other chain type is an error
ChainReject ==
    /\ pc = "engine"
    /\ ~ChainHandled(config.chain_type)
    /\ log' = Append(log, Ev("connect_proxyc", ns, FALSE))
    /\ pc' = "engine_err"
    /\ UNCHANGED <<config, fds, ofd, errno, args, ns, flags_orig, hop, ret, path, entry_flags>>
    /\ UNCHANGED otherVars

\* the effect of one chain_step on the stream and on the log
Step(next) ==
    \E reply \in Replies(config.proxies[hop]) :
        LET from == config.proxies[hop]
            to == NextHop(config.proxies, hop, args.address)
            r == chain_step(from, to, reply)
        IN  /\ ofd' = [ofd EXCEPT ![fds[ns]].peer =
                          IF r.ok /\ r.io THEN Append(@, to) ELSE @]
            /\ errno' = IF r.ok THEN errno ELSE "EIO"
            /\ log' = Append(log, [Ev("chain_step", ns, r.ok) EXCEPT
                                      !.hop = hop, !.drv = r.drv, !.to = to, !.io = r.io,
                                      !.sent = r.sent, !.authrep = r.authrep,
                                      !.atyp = r.atyp, !.methods = r.methods,
                                      !.selected = r.selected, !.creds = r.creds])
            /\ pc' = AfterStep(r.ok, next)

\* core.rs 235-237: for w in proxies.windows(2) { chain_step(ns, w[0], w[1])? }
ChainStep ==
    /\ pc = "chain_step"
    /\ hop < Len(config.proxies)
    /\ Step(IF hop + 1 < Len(config.proxies) THEN "chain_step" ELSE "chain_target")
    /\ hop' = hop + 1
    /\ UNCHANGED <<config, fds, args, ns, flags_orig, ret, path, entry_flags>>
    /\ UNCHANGED otherVars

\* core.rs 239-243: chain_step(ns, proxies.last(), &target_conf)
ChainTarget ==
    /\ pc = "chain_target"
    /\ hop = Len(config.proxies)
    /\ Step("dup2")
    /\ UNCHANGED <<config, fds, args, ns, flags_orig, hop, ret, path, entry_flags>>
    /\ UNCHANGED otherVars

\* core.rs 250: dup2(new_sock, sock)?
Dup2 ==
    /\ pc = "dup2"
    /\ \/ /\ fds' = [fds EXCEPT ![args.sock] = fds[ns]]
          /\ ofd' = Release(fds', ofd)
          /\ log' = Append(log, Ev("dup2", ns, TRUE))
          /\ pc' = "close"
          /\ UNCHANGED errno
       \/ /\ errno' = "EINTR"
          /\ log' = Append(log, Ev("dup2", ns, FALSE))
          /\ pc' = "engine_err"
          /\ UNCHANGED <<fds, ofd>>
    /\ UNCHANGED <<config, args, ns, flags_orig, hop, ret, path, entry_flags>>
    /\ UNCHANGED otherVars

\* core.rs 251: close(new_sock)?  The kernel frees the number even when close fails.
CloseScratch ==
    /\ pc = "close"
    /\ fds' = [fds EXCEPT ![ns] = "closed"]
    /\ ofd' = Release(fds', ofd)
    /\ \/ /\ log' = Append(log, Ev("close", ns, TRUE))
          /\ pc' = "restore"
          /\ UNCHANGED errno
       \/ /\ errno' = "EIO"
          /\ log' = Append(log, Ev("close", ns, FALSE))
          /\ pc' = "engine_err"
    /\ UNCHANGED <<config, args, ns, flags_orig, hop, ret, path, entry_flags>>
    /\ UNCHANGED otherVars

\* hook/connect.rs 83-90: the engine returned Ok; put the saved flags back
RestoreFlags ==
    /\ pc = "restore"
    /\ \/ /\ ofd' = [ofd EXCEPT ![fds[args.sock]].flags = flags_orig]
          /\ ret' = 0
          /\ pc' = "returned"
          /\ UNCHANGED errno
       \/ /\ errno' = "EBADF"
          /\ pc' = "real_connect"
          /\ UNCHANGED <<ofd, ret>>
    /\ UNCHANGED <<config, fds, args, ns, flags_orig, hop, path, entry_flags, log>>
    /\ UNCHANGED otherVars

\* hook/connect.rs 91-96: the engine returned Err
EngineFailed ==
    /\ pc = "engine_err"
    /\ fds' = [fds EXCEPT ![ns] = "closed"]
    /\ ofd' = Release(fds', ofd)
    /\ log' = Append(log, Ev("close", ns, fds[ns] # "closed"))
    /\ errno' = "ECONNREFUSED"
    /\ ret' = -1
    /\ pc' = "returned"
    /\ UNCHANGED <<config, args, ns, flags_orig, hop, path, entry_flags>>
    /\ UNCHANGED otherVars

\* hook/connect.rs 101: c_connect(sock, address, len), the next-in-chain connect
RealConnect ==
    /\ pc = "real_connect"
    /\ LET d == fds[args.sock]
           can == args.address.family # "Null"
                  /\ ~(ofd[d].type = "Stream" /\ ofd[d].peer # <<>>)
       IN \/ /\ can
             /\ ofd' = [ofd EXCEPT ![d].peer = <<args.address>>]
             /\ ret' = 0
             /\ log' = Append(log, [Ev("connect", args.sock, TRUE) EXCEPT
                                          !.addr = args.address, !.len = args.len])
             /\ UNCHANGED errno
          \/ /\ errno' = IF args.address.family = "Null" THEN "EFAULT"
                         ELSE IF can THEN "ENETUNREACH" ELSE "EISCONN"
             /\ ret' = -1
             /\ log' = Append(log, [Ev("connect", args.sock, FALSE) EXCEPT
                                          !.addr = args.address, !.len = args.len])
             /\ UNCHANGED ofd
    /\ pc' = "returned"
    /\ UNCHANGED <<config, fds, args, ns, flags_orig, hop, path, entry_flags>>
    /\ UNCHANGED otherVars

Next ==
    \/ Call
    \/ Dispatch
    \/ OpenScratch
    \/ SaveFlags
    \/ ChainStart
    \/ ChainReject
    \/ ChainStep
    \/ ChainTarget
    \/ Dup2
    \/ CloseScratch
    \/ RestoreFlags
    \/ EngineFailed
    \/ RealConnect

Spec == Init /\ [][Next]_vars

\* the hooked connect behind SOCKS5 proxies with and without user/password credentials
AuthProxy == {p \in ProxyConf : p.ip = [v |-> 4, a |-> 1] /\ p.port = 1 /\ p.proto = "Socks5"}

AuthConfig == [proxies : SeqsUpTo(AuthProxy, MaxProxies) \ {<<>>},
               chain_type : ChainType,
               tcp_read_timeout : {default_tcp_read},
               tcp_connect_timeout : {default_tcp_connect},
               proxy_dns : {TRUE},
               dns_subnet : {default_dns_subnet},
               ignore_subnets : {<<>>}]

InitAuth ==
    /\ config \in AuthConfig
    /\ \E t \in SockType, f \in SUBSET OFlag : HookIdle(t, f)
    /\ DnsIdle
    /\ http = HttpIdle
    /\ pollst = PollIdle
    /\ RestIdle

SpecAuth == InitAuth /\ [][Next]_vars

\* chains of proxies of every protocol that has a driver, with and without auth (the table
\* form of a proxy entry takes auth with any type)
CredProxy == {p \in ProxyConf : p.ip = [v |-> 4, a |-> 1] /\ p.port = 1 /\ p.proto # "Raw"}

CredConfig == [proxies : SeqsUpTo(CredProxy, MaxProxies) \ {<<>>},
               chain_type : ChainType,
               tcp_read_timeout : {default_tcp_read},
               tcp_connect_timeout : {default_tcp_connect},
               proxy_dns : {TRUE},
               dns_subnet : {default_dns_subnet},
               ignore_subnets : {<<>>}]

InitCred ==
    /\ config \in CredConfig
    /\ HookIdle("Stream", {})
    /\ DnsIdle
    /\ http = HttpIdle
    /\ pollst = PollIdle
    /\ RestIdle

SpecCred == InitCred /\ [][Next]_vars

TypeOK ==
    /\ config \in ProxycConfig
    /\ pc \in {"idle", "entry", "socket", "getfl", "engine", "chain_step", "chain_target", "dup2",
               "close", "restore", "engine_err", "real_connect", "returned", "panicked"}
    /\ ret \in {0, -1}
    /\ path \in {"none", "bypass", "chain"}

\* ------------------------------------------------- the fake DNS: calls of the threads
\* thread t's call returns with result `call`
Done(t, call) ==
    /\ last' = call
    /\ thr' = [thr EXCEPT ![t] = ThrIdle]

\* thread t's call reaches INTERNALADDR.lock()
Enter(t, op, name, target) ==
    /\ thr' = [thr EXCEPT ![t] = [ThrIdle EXCEPT !.pc = "wait", !.op = op, !.name = name,
                                                  !.target = target]]
    /\ UNCHANGED last

\* what the hook returns to the host program for the result of proxyc_gethostbyname:
\* gethostbyname gives the hostent or null (gethostbyname.rs 16-22); proxyc_getaddrinfo
\* unwraps the result (core.rs 417), fills its block and returns 0
resolver_result(op, ok) ==
    IF op = "gethostbyname" THEN (IF ok THEN "hostent" ELSE "NULL")
    ELSE (IF ok THEN "0" ELSE "panic")

\* hook/gethostbyname.rs: thread t calls gethostbyname(name)
GetHostByName(t) ==
    /\ thr[t].pc = "idle"
    /\ \E name \in Names :
          IF proxy_dns_on(config)
          THEN Enter(t, "gethostbyname", name, NoTarget)
          ELSE Done(t, [NoCall EXCEPT !.op = "gethostbyname", !.name = name, !.via = "libc",
                                      !.ret = "libc"])
    /\ UNCHANGED <<table, idx, mutex, firstAddr, exhausted>>
    /\ UNCHANGED nonDnsVars

\* what becomes of the block proxyc_getaddrinfo allocates (core.rs 398-399): it is freed
\* before EAI_NONAME is returned (412, 427), handed to the caller with 0 (505), and
\* neither when the call panics
block_of(op, code) ==
    IF op # "getaddrinfo" THEN "none"
    ELSE IF code = "0" THEN "returned"
    ELSE IF code = "EAI_NONAME" THEN "freed"
    ELSE "leaked"

\* variant: AI_NUMERICHOST is not looked at
ai_numerichost_ignored(numerichost) == FALSE

\* core.rs 411: !hints.is_null() && (*hints).ai_flags & AI_NUMERICHOST != 0
ai_numerichost(numerichost) == numerichost

\* hook/getaddrinfo.rs and core::proxyc_getaddrinfo up to the call of proxyc_gethostbyname:
\* thread t calls getaddrinfo(node, ..) with or without AI_NUMERICHOST in the hints
GetAddrInfo(t) ==
    /\ thr[t].pc = "idle"
    /\ \E node \in Names, numerichost \in BOOLEAN :
          LET call == [NoCall EXCEPT !.op = "getaddrinfo", !.name = node,
                                     !.numerichost = numerichost]
          IN  IF ~proxy_dns_on(config) THEN Done(t, [call EXCEPT !.via = "libc", !.ret = "libc"])
              ELSE IF contains_numeric_ip(node)
              THEN Done(t, [call EXCEPT !.via = "literal", !.addr = NumericIp[node],
                                        !.ret = "0", !.block = block_of("getaddrinfo", "0"),
                                        !.res = TRUE])
              ELSE IF ai_numerichost(numerichost)
              THEN Done(t, [call EXCEPT !.via = "numerichost", !.ok = FALSE,
                                        !.ret = "EAI_NONAME",
                                        !.block = block_of("getaddrinfo", "EAI_NONAME")])
              ELSE /\ thr' = [thr EXCEPT ![t] = [ThrIdle EXCEPT !.pc = "wait",
                                                                !.op = "getaddrinfo",
                                                                !.name = node,
                                                                !.numerichost = numerichost]]
                   /\ UNCHANGED last
    /\ UNCHANGED <<table, idx, mutex, firstAddr, exhausted>>
    /\ UNCHANGED nonDnsVars

\* hook/freeaddrinfo.rs
FreeAddrInfo(t) ==
    /\ thr[t].pc = "idle"
    /\ Done(t, [NoCall EXCEPT !.op = "freeaddrinfo",
                              !.via = IF proxy_dns_on(config) THEN "free" ELSE "libc",
                              !.ret = "void"])
    /\ UNCHANGED <<table, idx, mutex, firstAddr, exhausted>>
    /\ UNCHANGED nonDnsVars

\* Socks5::connect of thread t has authenticated and builds its request for a next hop
\* (socks.rs 266-278); find_ip_hostname returns before the lock when proxy_dns is off
Socks5Request(t) ==
    /\ thr[t].pc = "idle"
    /\ \E target \in Targets :
          IF proxy_dns_on(config)
          THEN Enter(t, "socks5", NoName, target)
          ELSE LET r == socks5_request(target, find_ip_hostname(target, config, table))
               IN  Done(t, [NoCall EXCEPT !.op = "socks5", !.target = target,
                                          !.atyp = r.atyp, !.host = r.host])
    /\ UNCHANGED <<table, idx, mutex, firstAddr, exhausted>>
    /\ UNCHANGED nonDnsVars

\* INTERNALADDR.lock().expect("mutex poisoned"): a waiting thread gets the lock when it
\* is free (its critical section is one step), and panics when it is poisoned
LockPoisoned(t) ==
    /\ thr[t].pc = "wait"
    /\ mutex = "poisoned"
    /\ thr' = [thr EXCEPT ![t] = [ThrIdle EXCEPT !.pc = "panicked"]]
    /\ UNCHANGED <<table, idx, mutex, firstAddr, exhausted, last>>
    /\ UNCHANGED nonDnsVars

\* runs are followed until the counter, after wrapping, has passed the valid indexes again
SecondPassDone == exhausted /\ idx = MaxIdx

\* the outcomes of `self.idx += 1`: the build either wraps the u32 or panics on overflow
Overflow(i) == IF i + 1 = CounterSpace THEN {"wrap", "panic"} ELSE {"none"}

\* proxyc_gethostbyname under the lock (core.rs 377-383), and what its callers do with
\* the result: gethostbyname returns null on Err, proxyc_getaddrinfo unwraps it
AssignAddr(t) ==
    /\ thr[t].pc = "wait"
    /\ mutex = "free"
    /\ ~SecondPassDone
    /\ thr[t].op \in {"gethostbyname", "getaddrinfo"}
    /\ \E o \in Overflow(idx) :
          IF o = "panic"
          THEN /\ mutex' = "poisoned"
               /\ thr' = [thr EXCEPT ![t] = [ThrIdle EXCEPT !.pc = "panicked"]]
               /\ UNCHANGED <<table, idx, firstAddr, exhausted, last>>
          ELSE LET hn == thr[t].name
                   r == assign_addr(table, idx, hn, config)
               IN  /\ table' = r.table
                   /\ idx' = r.idx
                   /\ UNCHANGED mutex
                   /\ firstAddr' = IF r.ok /\ firstAddr[hn] = {}
                                   THEN [firstAddr EXCEPT ![hn] = {r.addr}] ELSE firstAddr
                   /\ exhausted' = (exhausted \/ r.idx > MaxIdx)
                   /\ last' = [NoCall EXCEPT !.op = thr[t].op, !.name = hn, !.via = "fake",
                                             !.ok = r.ok, !.addr = r.addr,
                                             !.ret = resolver_result(thr[t].op, r.ok),
                                             !.numerichost = thr[t].numerichost,
                                             !.block = block_of(thr[t].op,
                                                           resolver_result(thr[t].op, r.ok)),
                                             !.res = (thr[t].op = "getaddrinfo" /\ r.ok)]
                   /\ thr' = [thr EXCEPT ![t] =
                                 IF resolver_result(thr[t].op, r.ok) = "panic"
                                 THEN [ThrIdle EXCEPT !.pc = "panicked"] ELSE ThrIdle]
    /\ UNCHANGED nonDnsVars

\* find_ip_hostname under the lock, and the request Socks5::connect writes
ReverseLookup(t) ==
    /\ thr[t].pc = "wait"
    /\ mutex = "free"
    /\ thr[t].op = "socks5"
    /\ LET target == thr[t].target
           r == socks5_request(target, find_ip_hostname(target, config, table))
       IN  Done(t, [NoCall EXCEPT !.op = "socks5", !.target = target,
                                  !.atyp = r.atyp, !.host = r.host])
    /\ UNCHANGED <<table, idx, mutex, firstAddr, exhausted>>
    /\ UNCHANGED nonDnsVars

\* the configurations of the resolver runs: one SOCKS5 proxy, proxy_dns on or off
DnsConfig == {[c EXCEPT !.proxy_dns = b] :
                 b \in BOOLEAN,
                 c \in {d \in ProxycConfig : /\ Len(d.proxies) = 1
                                             /\ d.proxies[1].proto = "Socks5"
                                             /\ d.chain_type = "Strict"
                                             /\ d.ignore_subnets = <<>>}}

InitDns ==
    /\ config \in DnsConfig
    /\ HookIdle("Stream", {})
    /\ DnsIdle
    /\ http = HttpIdle
    /\ pollst = PollIdle
    /\ RestIdle

NextDns ==
    \E t \in Threads :
        \/ GetHostByName(t)
        \/ GetAddrInfo(t)
        \/ FreeAddrInfo(t)
        \/ Socks5Request(t)
        \/ LockPoisoned(t)
        \/ AssignAddr(t)
        \/ ReverseLookup(t)

SpecDns == InitDns /\ [][NextDns]_vars

\* ------------------------------------------------- the HTTP driver
\* Http::connect after it wrote its CONNECT line (http.rs 26-45), on the bytes the proxy
\* answers: bytes are read one at a time into buf until the last four are CR LF CR LF
\* (and more than four were read) or buf is full; a read past the last byte fails
http_connect(bytes) ==
    LET ends == {n \in 5..BufSize : n <= Len(bytes) /\ SubSeq(bytes, n - 3, n) = CRLFCRLF}
        len == IF ends # {} THEN CHOOSE n \in ends : \A m \in ends : n <= m ELSE BufSize
        buf(i) == IF i < len THEN bytes[i + 1] ELSE "NUL"
    IN  IF ends = {} /\ Len(bytes) < BufSize
        THEN [ok |-> FALSE, len |-> Len(bytes)]
        ELSE [ok |-> ~(len = BufSize \/ ~(buf(9) = "2" /\ buf(10) = "0" /\ buf(11) = "0")),
              len |-> len]

\* the fixed configuration of the driver runs
OneProxy == CHOOSE c \in ProxycConfig : Len(c.proxies) = 1 /\ c.proxies[1].proto = "Http"
                                         /\ c.chain_type = "Strict" /\ c.ignore_subnets = <<>>

InitHttp ==
    /\ config = OneProxy
    /\ HookIdle("Stream", {})
    /\ DnsIdle
    /\ \E h \in Heads, p \in Pads, t \in BOOLEAN :
          http = [HttpIdle EXCEPT !.head = h, !.pad = p, !.term = t, !.pc = "sent"]
    /\ pollst = PollIdle
    /\ RestIdle

\* the driver reads the proxy's answer and returns
HttpConnect ==
    /\ http.pc = "sent"
    /\ LET r == http_connect(HttpBytes(http))
       IN  http' = [http EXCEPT !.pc = "done", !.ok = r.ok, !.len = r.len]
    /\ UNCHANGED <<hookVars, dnsVars, pollst, restVars>>

NextHttp == HttpConnect

SpecHttp == InitHttp /\ [][NextHttp]_vars

\* ------------------------------------------------- poll_retry
\* time is counted in whole units of the monotonic clock; a run is followed until the
\* clock reads MaxClock

\* i32::MIN, narrowed with the clock and kept far below every time the clock reads
I32Min == -(MaxClock * MaxClock)

\* i32::checked_sub(a, b).unwrap_or(0) for b >= 0
checked_sub_or_0(a, b) == IF a - b < I32Min THEN 0 ELSE a - b

InitPoll ==
    /\ config = OneProxy
    /\ HookIdle("Stream", {})
    /\ DnsIdle
    /\ http = HttpIdle
    /\ pollst = PollIdle
    /\ RestIdle

\* timed_connect got EINPROGRESS and calls poll_retry(fds, timeout) (core.rs 104,
\* util.rs 10-11): now = Instant::now(), remaining = timeout
PollRetry ==
    /\ pollst.pc = "idle"
    /\ \E timeout \in 1..MaxTimeout :
          pollst' = [PollIdle EXCEPT !.pc = "poll", !.timeout = timeout, !.remaining = timeout]
    /\ UNCHANGED <<hookVars, dnsVars, http, restVars>>

\* how long poll(fds, remaining) can block when the clock reads `elapsed`: up to its
\* timeout, without limit when the timeout is negative
MaxWait(remaining, elapsed) ==
    IF remaining < 0 THEN MaxClock - elapsed
    ELSE IF remaining < MaxClock - elapsed THEN remaining ELSE MaxClock - elapsed

\* util.rs 13-14: poll blocks for d units and returns 1 (ready), EINTR or another error,
\* or 0 when its timeout expired; elapsed is read e units after poll returned
Poll ==
    /\ pollst.pc = "poll"
    /\ \E d \in 0..MaxWait(pollst.remaining, pollst.elapsed), e \in {0, 1},
          r \in {"ready", "eintr", "error", "zero"} :
          /\ r = "zero" => d = pollst.remaining
          /\ pollst.elapsed + d + e <= MaxClock
          /\ pollst' = [pollst EXCEPT !.pc = "woken", !.ret = r, !.intr = @ \/ r = "eintr",
                                       !.waited = @ + d, !.elapsed = @ + d + e]
    /\ UNCHANGED <<hookVars, dnsVars, http, restVars>>

\* util.rs 15-27: remaining = remaining.checked_sub(elapsed).unwrap_or(0), Timeout when
\* that is 0, else the result of poll decides: return it, or loop on EINTR
AfterPoll ==
    /\ pollst.pc = "woken"
    /\ LET remaining == checked_sub_or_0(pollst.remaining, pollst.elapsed)
       IN  pollst' = IF remaining = 0
                     THEN [pollst EXCEPT !.pc = "done", !.remaining = remaining,
                                         !.result = "Timeout"]
                     ELSE IF pollst.ret = "eintr"
                     THEN [pollst EXCEPT !.pc = "poll", !.remaining = remaining]
                     ELSE [pollst EXCEPT !.pc = "done", !.remaining = remaining,
                                         !.result = IF pollst.ret = "error" THEN "Err" ELSE "Ok"]
    /\ UNCHANGED <<hookVars, dnsVars, http, restVars>>

NextPoll ==
    \/ PollRetry
    \/ Poll
    \/ AfterPoll

SpecPoll == InitPoll /\ [][NextPoll]_vars

\* ------------------------------------------------- timed_connect around poll_retry
\* core.rs 92-102: F_SETFL(O_NONBLOCK), then the underlying connect; any result but
\* EINPROGRESS goes straight to the end of the function
TcConnect ==
    /\ tc.pc = "idle"
    /\ \E res \in ConnectRes :
          tc' = IF res = "einprogress"
                THEN [TcIdle EXCEPT !.pc = "einprogress", !.res = res, !.flags = {"O_NONBLOCK"}]
                ELSE LET r == timed_connect(res, "none", FALSE, "zero")
                     IN  [TcIdle EXCEPT !.pc = "done", !.res = res, !.ok = r.ok,
                                        !.flags = r.flags, !.errno = r.errno]
    /\ UNCHANGED <<hookVars, dnsVars, http, pollst, conf, rd, wire>>

\* core.rs 104: poll_retry(&mut fds, timeout)
TcPollRetry ==
    /\ tc.pc = "einprogress"
    /\ PollRetry

\* what the run of poll_retry handed back, in the terms of timed_connect
PollResOf(p) ==
    CASE p.result = "Timeout" -> "timeout"
      [] p.result = "Err" -> "error"
      [] p.result = "Ok" /\ p.ret = "ready" -> "ready"
      [] OTHER -> "none"

\* core.rs 104-127 after poll_retry has returned, with the SO_ERROR getsockopt reads
TcReturn ==
    /\ tc.pc = "einprogress"
    /\ pollst.pc = "done"
    /\ \E soerr \in SoErr :
          LET r == timed_connect(tc.res, PollResOf(pollst), pollst.intr, soerr)
          IN  tc' = [tc EXCEPT !.pc = "done", !.soerr = soerr, !.ok = r.ok,
                               !.flags = r.flags, !.errno = r.errno]
    /\ UNCHANGED <<hookVars, dnsVars, http, pollst, conf, rd, wire>>

NextTc ==
    \/ TcConnect
    \/ TcPollRetry
    \/ Poll
    \/ AfterPoll
    \/ TcReturn

SpecTc == InitPoll /\ [][NextTc]_vars

\* ------------------------------------------------- read_timeout around poll_retry
\* the stream delivers the bytes 1, 2, 3, ..; rd.buf is the part of the caller's buffer
\* filled so far

\* read_timeout(fd, buf, timeout) is called with a buffer of buflen bytes
RdCall ==
    /\ rd.pc = "idle"
    /\ \E n \in 0..MaxBuf : rd' = [RdIdle EXCEPT !.pc = "loop", !.buflen = n]
    /\ UNCHANGED <<hookVars, dnsVars, http, pollst, conf, tc, wire>>

\* util.rs 34-35: the buffer is not full yet, poll_retry(&mut fds, timeout)
RdPollRetry ==
    /\ rd.pc = "loop"
    /\ ~rd.eof
    /\ Len(rd.buf) < rd.buflen
    /\ PollRetry

\* util.rs 35-51 once poll_retry has returned: its error is propagated; without POLLIN
\* in revents the call fails; else read(fd, buf) fills k bytes, or returns 0 or an error
RdRead ==
    /\ rd.pc = "loop"
    /\ pollst.pc = "done"
    /\ \E pollin \in BOOLEAN, k \in -1..(rd.buflen - Len(rd.buf)) :
          LET seen == [rd EXCEPT !.lastret = pollst.ret]
              fail(e) == [seen EXCEPT !.pc = "done", !.result = e]
          IN  rd' = IF pollst.result = "Timeout" THEN fail("Timeout")
                    ELSE IF pollst.result = "Err" THEN fail("Err")
                    ELSE IF ~(pollst.ret = "ready" /\ pollin) THEN fail("Generic")
                    ELSE IF k = -1 THEN fail("Err")
                    ELSE IF k = 0 THEN [seen EXCEPT !.eof = TRUE]
                    ELSE [seen EXCEPT !.buf = @ \o [i \in 1..k |-> Len(rd.buf) + i]]
    /\ pollst' = PollIdle
    /\ UNCHANGED <<hookVars, dnsVars, http, conf, tc, wire>>

\* util.rs 53-57: the loop is left on a full buffer or on end of stream
RdReturn ==
    /\ rd.pc = "loop"
    /\ pollst.pc = "idle"
    /\ rd.eof \/ Len(rd.buf) = rd.buflen
    /\ rd' = [rd EXCEPT !.pc = "done",
                         !.result = IF Len(rd.buf) < rd.buflen THEN "MissingData" ELSE "Ok"]
    /\ UNCHANGED <<hookVars, dnsVars, http, pollst, conf, tc, wire>>

NextRd ==
    \/ RdCall
    \/ RdPollRetry
    \/ Poll
    \/ AfterPoll
    \/ RdRead
    \/ RdReturn

SpecRd == InitPoll /\ [][NextRd]_vars

\* ------------------------------------------------- configuration loading
\* the ProxyType a scheme or `type` names (serde rename_all = "lowercase"; lib.rs 78-82)
ProtoOf == [t \in {"socks4", "socks5", "http", "raw"} |->
              CASE t = "socks4" -> "Socks4" [] t = "socks5" -> "Socks5"
                [] t = "http" -> "Http" [] t = "raw" -> "Raw"]

ParseErr == [ok |-> FALSE, proxy |-> NoHop]
Parsed(e) == [ok |-> TRUE,
              proxy |-> [proto |-> ProtoOf[e.type], ip |-> [v |-> IF e.ip = "ipv6" THEN 6 ELSE 4, a |-> 1],
                         port |-> 1, auth |-> IF e.user THEN {"UserPassword"} ELSE {}]]

\* impl FromStr for ProxyConf: the URL form
from_str(e) ==
    IF e.type \notin DOMAIN ProtoOf THEN ParseErr
    ELSE IF e.ip # "ipv4" THEN ParseErr
    ELSE IF ~e.port THEN ParseErr
    ELSE IF (e.user \/ e.password) /\ ProtoOf[e.type] \notin {"Socks5", "Http"} THEN ParseErr
    ELSE IF e.user # e.password THEN ParseErr
    ELSE Parsed(e)

\* #[derive(Deserialize)] for ProxyConf: the table form; each field is parsed by its
\* type, nothing relates the fields to each other
deserialize(e) ==
    IF e.type \notin DOMAIN ProtoOf THEN ParseErr
    ELSE IF e.ip \notin {"ipv4", "ipv6"} THEN ParseErr
    ELSE IF ~e.port THEN ParseErr
    ELSE Parsed(e)

\* StringOrStruct: visit_str for a string, visit_map for a table
string_or_struct(e) == IF e.form = "url" THEN from_str(e) ELSE deserialize(e)

InitConf ==
    /\ config = OneProxy
    /\ HookIdle("Stream", {})
    /\ DnsIdle
    /\ http = HttpIdle
    /\ pollst = PollIdle
    /\ conf = [ConfIdle EXCEPT !.pc = "loading"]
    /\ tc = TcIdle
    /\ rd = RdIdle
    /\ wire = WireIdle

\* SeqStringOrStruct::visit_seq: the next element is parsed and pushed, an error ends
\* the loading
LoadEntry ==
    /\ conf.pc = "loading"
    /\ Len(conf.proxies) < MaxProxies
    /\ \E e \in Entry :
          LET r == string_or_struct(e)
          IN  conf' = IF r.ok
                      THEN [conf EXCEPT !.proxies = Append(@, r.proxy),
                                        !.forms = Append(@, e.form)]
                      ELSE [conf EXCEPT !.pc = "failed"]
    /\ UNCHANGED <<hookVars, dnsVars, http, pollst, tc, rd, wire>>

\* the sequence has no further element: Ok(vec)
Loaded ==
    /\ conf.pc = "loading"
    /\ conf' = [conf EXCEPT !.pc = "loaded"]
    /\ UNCHANGED <<hookVars, dnsVars, http, pollst, tc, rd, wire>>

NextConf ==
    \/ LoadEntry
    \/ Loaded

SpecConf == InitConf /\ [][NextConf]_vars

\* ------------------------------------------------- the SOCKS drivers on bytes
\* u32::from(Ipv4Addr): the octets in big-endian order, kept as two 16-bit halves
u32_from(octets) == [hi |-> octets[1] * 256 + octets[2], lo |-> octets[3] * 256 + octets[4]]

\* variant: the low byte is written first
write_u16_le(n) == <<n % 256, n \div 256>>

\* WriteBytesExt::write_u16::<BigEndian>
write_u16_be(n) == <<n \div 256, n % 256>>

\* WriteBytesExt::write_u32::<BigEndian>
write_u32_be(n) == write_u16_be(n.hi) \o write_u16_be(n.lo)

\* socks.rs write_hostname: ATYP 3, the length as u8 (try_into().unwrap() panics above
\* 255), the name, the port
write_hostname(target, name) ==
    [panic |-> Len(name) > 255,
     bytes |-> <<3, Len(name) % 256>> \o name \o write_u16_be(target.port)]

\* socks.rs write_addr
write_addr(target) ==
    [panic |-> FALSE,
     bytes |-> IF target.v = 4
               THEN <<1>> \o write_u32_be(u32_from(target.octets)) \o write_u16_be(target.port)
               ELSE <<4>> \o target.octets \o write_u16_be(target.port)]

\* the request Socks5::connect writes (socks.rs 260-278)
request_packet(target, hn) ==
    LET a == IF hn # {} THEN write_hostname(target, CHOOSE name \in hn : TRUE)
             ELSE write_addr(target)
    IN  [panic |-> a.panic, bytes |-> <<5, 1, 0>> \o a.bytes]

\* util::read_timeout(sock, buf, ..) for a buf of n bytes on a stream read up to pos: Ok
\* with n more bytes read when the stream has them; else what is there is read and the
\* call fails, with MissingData at the end of the stream, with Timeout on a silent
\* stream, or with a Generic error there when the poll returned late
read_timeout(stream, eof, pos, n, late) ==
    IF pos + n <= Len(stream) THEN [ok |-> TRUE, pos |-> pos + n, err |-> "none"]
    ELSE [ok |-> FALSE, pos |-> Len(stream),
          err |-> IF eof THEN "MissingData" ELSE IF late THEN "Generic" ELSE "Timeout"]

\* socks.rs 145-149: the length of the bound address, -1 for an unsupported ATYP
addr_len(atyp) ==
    CASE atyp = 1 -> 4
      [] atyp = 4 -> 16
      [] OTHER -> -1

\* variant: the port after the bound address is left in the stream
tail_size_no_port(len) == len

\* socks.rs 151: vec![0; len + 2]
tail_size(len) == len + 2

\* socks.rs read_response
read_response(stream, eof, late) ==
    LET h == read_timeout(stream, eof, 0, 4, late)
        fail(pos, e) == [ok |-> FALSE, pos |-> pos, err |-> e]
    IN  IF ~h.ok THEN h
        ELSE IF stream[1] # 5 THEN fail(4, "InvalidData")
        ELSE IF stream[2] # 0 THEN fail(4, "Other")
        ELSE IF stream[3] # 0 THEN fail(4, "InvalidData")
        ELSE IF addr_len(stream[4]) < 0 THEN fail(4, "Other")
        ELSE read_timeout(stream, eof, 4, tail_size(addr_len(stream[4])), late)

\* variant: every address family is written
socks4_supported_any(target) == TRUE

\* socks.rs 26-27: Socks4::connect goes on for IpAddr::V4 only
socks4_supported(target) == target.v = 4

\* the packet Socks4::connect builds (socks.rs 21-32)
socks4_packet(target) ==
    <<4, 1>> \o write_u16_be(target.port)
             \o (IF target.v = 4 THEN write_u32_be(u32_from(target.octets)) ELSE target.octets)
             \o <<0>>

\* variant: the first reply byte is not looked at
socks4_granted_any_version(buf) == buf[2] = 90

\* socks.rs 45-79: the reply is accepted when byte 0 is 0 and byte 1 is 90
socks4_granted(buf) == buf[1] = 0 /\ buf[2] = 90

\* the bytes the proxy sends before the stream ends or goes silent
WireStream(reply, cut, more) ==
    IF cut = 0 THEN reply \o [i \in 1..more |-> 200] ELSE SubSeq(reply, 1, Len(reply) - cut)

InitWire ==
    /\ config = OneProxy
    /\ HookIdle("Stream", {})
    /\ DnsIdle
    /\ http = HttpIdle
    /\ pollst = PollIdle
    /\ conf = ConfIdle
    /\ tc = TcIdle
    /\ rd = RdIdle
    /\ \E drv \in {"Socks4", "Socks5"}, target \in WireTargets, hn \in WireNames,
          cut \in {0, 1, 7}, more \in {0, 2}, eof \in BOOLEAN :
          \E reply \in IF drv = "Socks4" THEN Socks4Replies ELSE Socks5Replies :
              wire = [WireIdle EXCEPT !.pc = "called", !.drv = drv, !.target = target,
                                      !.hn = hn, !.reply = reply,
                                      !.stream = WireStream(reply, cut, more), !.eof = eof]

\* Socks5::connect from the request on (socks.rs 260-283), authentication being done
WireSocks5 ==
    /\ wire.pc = "called"
    /\ wire.drv = "Socks5"
    /\ \E late \in BOOLEAN :
          LET packet == request_packet(wire.target, wire.hn)
              r == read_response(wire.stream, wire.eof, late)
          IN  wire' = IF packet.panic
                      THEN [wire EXCEPT !.pc = "done", !.err = "panic"]
                      ELSE [wire EXCEPT !.pc = "done", !.sent = packet.bytes, !.ok = r.ok,
                                        !.consumed = r.pos, !.err = r.err]
    /\ UNCHANGED <<hookVars, dnsVars, http, pollst, conf, tc, rd>>

\* Socks4::connect (socks.rs 19-82)
WireSocks4 ==
    /\ wire.pc = "called"
    /\ wire.drv = "Socks4"
    /\ \E late \in BOOLEAN :
          LET r == read_timeout(wire.stream, wire.eof, 0, 8, late)
          IN  wire' = IF ~socks4_supported(wire.target)
                      THEN [wire EXCEPT !.pc = "done", !.err = "Generic"]
                      ELSE IF ~r.ok
                      THEN [wire EXCEPT !.pc = "done", !.sent = socks4_packet(wire.target),
                                        !.consumed = r.pos, !.err = r.err]
                      ELSE [wire EXCEPT !.pc = "done", !.sent = socks4_packet(wire.target),
                                        !.consumed = r.pos,
                                        !.ok = socks4_granted(wire.stream),
                                        !.err = IF socks4_granted(wire.stream) THEN "none"
                                                ELSE IF wire.stream[1] # 0 THEN "InvalidData"
                                                ELSE IF wire.stream[2] = 91 THEN "Other"
                                                ELSE IF wire.stream[2] \in {92, 93}
                                                THEN "PermissionDenied"
                                                ELSE "InvalidData"]
    /\ UNCHANGED <<hookVars, dnsVars, http, pollst, conf, tc, rd>>

NextWire ==
    \/ WireSocks5
    \/ WireSocks4

SpecWire == InitWire /\ [][NextWire]_vars

\* ------------------------------------------------------------ properties
Returned == pc = "returned"
N == Len(config.proxies)
Target == args.address
CallerFlags == ofd[fds[args.sock]].flags
HasEv(op) == \E j \in 1..Len(log) : log[j].op = op
IsChainEv(e) == e.op \in {"timed_connect", "chain_step"}
ChainEvents == SelectSeq(log, IsChainEv)
StreamInet == Target.family \in {"Inet", "Inet6"} /\ ofd["caller"].type = "Stream"

\* C1: a hooked connect that took the chaining path and returned 0 connected the scratch
\* fd to the first proxy, ran one successful driver handshake per configured proxy (the
\* last one towards the caller's target), dup2'ed the scratch fd onto the caller's fd,
\* and left the caller's O_NONBLOCK bit as it was on entry.
C1_ChainSuccess ==
    (Returned /\ path = "chain" /\ ret = 0) =>
        /\ \E j \in 1..Len(log) :
              log[j].op = "timed_connect" /\ log[j].ok /\ log[j].fd = ns
              /\ log[j].to = config.proxies[1]
        /\ \A i \in 1..N : \E j \in 1..Len(log) :
              /\ log[j].op = "chain_step" /\ log[j].ok /\ log[j].hop = i
              /\ log[j].drv = config.proxies[i].proto
              /\ (i = N => log[j].to = target_conf(Target))
        /\ Cardinality({j \in 1..Len(log) : log[j].op = "chain_step"}) = N
        /\ \E j \in 1..Len(log) : log[j].op = "dup2" /\ log[j].ok /\ log[j].fd = ns
        /\ fds[args.sock] = "scratch"
        /\ ("O_NONBLOCK" \in CallerFlags) <=> ("O_NONBLOCK" \in entry_flags)

C1_Witness ==
    /\ Returned /\ path = "chain" /\ ret = 0
    /\ "O_NONBLOCK" \in entry_flags
    /\ N = MaxProxies

\* C2 (as claimed): when the chaining path returns -1 the file-status flags of the
\* caller's fd are those it had on entry.
C2_FlagsRestoredOnFailure ==
    (Returned /\ path = "chain" /\ ret = -1) => CallerFlags = entry_flags

\* C3 (as claimed): whenever the chaining path returns -1, errno is ECONNREFUSED.
C3_ErrnoOnFailure ==
    (Returned /\ path = "chain" /\ ret = -1) => errno = "ECONNREFUSED"

\* C4 (as claimed): after the hook has returned, the scratch socket it opened is not open
\* under any descriptor number other than the caller's.
C4_ScratchReleased ==
    Returned => \A n \in FdNums \ {args.sock} : fds[n] # "scratch"

\* C5 (as claimed): when the hook returns -1 the caller's fd still refers to its original
\* socket.
C5_CallerFdKeptOnFailure ==
    (Returned /\ ret = -1) => fds[args.sock] = "caller"

\* C6: with a null address, a family other than INET/INET6 or a socket that is not
\* SOCK_STREAM, the hook makes exactly one call, the next-in-chain connect with the
\* caller's (fd, address, len); it opens no scratch fd, does no proxy I/O, leaves the
\* caller's flags alone and returns what the real connect returned.
C6_Delegates ==
    (Returned /\ ~StreamInet) =>
        /\ path = "bypass"
        /\ Len(log) = 1
        /\ log[1].op = "connect" /\ log[1].fd = args.sock
        /\ log[1].addr = Target /\ log[1].len = SockLen(Target)
        /\ ~log[1].io
        /\ ns = 0 /\ \A n \in FdNums : fds[n] # "scratch"
        /\ fds[args.sock] = "caller" /\ CallerFlags = entry_flags
        /\ (ret = 0) <=> log[1].ok

C6_Witness ==
    /\ Returned /\ ret = 0
    /\ Target.family = "Inet" /\ ofd["caller"].type = "Datagram"
    /\ "O_NONBLOCK" \in entry_flags

\* membership of an address in a CIDR block, by enumeration of the block
InBlock(c, a) == \E h \in 0..(Pow2(AddrBits - c.len) - 1) : a = c.addr + h

\* C7: for a stream INET/INET6 target the hook takes the bypass path exactly when some
\* ignore_subnets entry has a port equal to the target port, or a cidr that contains the
\* target and the target is IPv4; the bypass is one real connect with the original
\* sockaddr and no proxy traffic.
C7_BypassIffIgnored ==
    (Returned /\ StreamInet) =>
        /\ (path = "bypass") <=>
              \E k \in 1..Len(config.ignore_subnets) :
                 \/ config.ignore_subnets[k].port = {Target.port}
                 \/ Target.ip.v = 4 /\ InBlock(config.ignore_subnets[k].cidr, Target.ip.a)
        /\ path = "bypass" =>
              /\ Len(log) = 1 /\ log[1].op = "connect" /\ log[1].addr = Target
              /\ fds[args.sock] = "caller"

C7_Witness ==
    /\ Returned /\ StreamInet /\ path = "bypass"
    /\ Target.ip.v = 4
    /\ \E k \in 1..Len(config.ignore_subnets) :
          /\ config.ignore_subnets[k].port = {}
          /\ config.ignore_subnets[k].cidr.len = AddrBits
          /\ config.ignore_subnets[k].cidr.addr = Target.ip.a

\* C8: under Strict the engine's steps are, in order and once each, timed_connect of the
\* scratch fd to p_1 with the connect timeout, then for i = 1..N the driver of p_i with
\* next hop p_{i+1} (the target for i = N); every step but the last one made has
\* succeeded, all use the scratch fd, and dup2 is reached only after all N+1 succeeded.
C8_StrictOrder ==
    LET ce == ChainEvents IN
    /\ ce # <<>> => config.chain_type = "Strict"
    /\ Len(ce) <= N + 1
    /\ \A j \in 1..Len(ce) :
          /\ ce[j].fd = ns
          /\ j < Len(ce) => ce[j].ok
          /\ j = 1 => /\ ce[j].op = "timed_connect"
                      /\ ce[j].to = config.proxies[1]
                      /\ ce[j].timeout = config.tcp_connect_timeout
          /\ j > 1 => /\ ce[j].op = "chain_step"
                      /\ ce[j].hop = j - 1
                      /\ ce[j].drv = config.proxies[j - 1].proto
                      /\ ce[j].to = IF j - 1 < N THEN config.proxies[j] ELSE target_conf(Target)
    /\ (pc \in {"dup2", "close", "restore"} \/ HasEv("dup2")) =>
          Len(ce) = N + 1 /\ \A j \in 1..Len(ce) : ce[j].ok

C8_Witness ==
    /\ pc = "dup2"
    /\ N = MaxProxies
    /\ config.proxies[1].proto = "Http" /\ config.proxies[N].proto = "Socks5"

\* C9: once timed_connect or a driver step has failed, the only call that follows is the
\* hook's close of the scratch fd: no driver, no I/O on the scratch fd, no retry, no
\* dup2; the caller's fd is untouched and the hook returns -1.
C9_FirstFailureAborts ==
    \A j \in 1..Len(log) :
        (IsChainEv(log[j]) /\ ~log[j].ok) =>
            /\ \A m \in (j + 1)..Len(log) : log[m].op = "close" /\ ~log[m].io
            /\ pc \in {"engine_err", "returned"}
            /\ fds[args.sock] = "caller"
            /\ Returned => ret = -1

C9_Witness ==
    /\ Returned
    /\ N = MaxProxies
    /\ \E j \in 1..Len(log) : log[j].op = "chain_step" /\ log[j].hop = 1 /\ ~log[j].ok

\* C10: with chain_type Dynamic or Random a call that reaches the engine is rejected: no
\* connect to a proxy, no byte to a proxy, no dup2; the scratch fd is closed, the caller's
\* fd is the original socket, and the hook returns -1 with errno ECONNREFUSED.
C10_UnhandledChainType ==
    (config.chain_type \in {"Dynamic", "Random"}) =>
        /\ ChainEvents = <<>>
        /\ ~HasEv("dup2")
        /\ \A j \in 1..Len(log) : ~log[j].io
        /\ fds[args.sock] = "caller"
        /\ (Returned /\ HasEv("connect_proxyc")) =>
              /\ ret = -1 /\ errno = "ECONNREFUSED"
              /\ \A n \in FdNums : fds[n] # "scratch"

C10_Witness ==
    /\ Returned /\ HasEv("connect_proxyc")
    /\ config.chain_type = "Random"

\* ------------------------------------------------- properties of the fake DNS
IsAssign(c) == c.op \in {"gethostbyname", "getaddrinfo"} /\ c.via = "fake"
InSubnet(ip) == ip.v = 4 /\ ip.a \div IdxSpace = config.dns_subnet
IndexOf(ip) == ip.a % IdxSpace

\* C11 (as claimed): every successful assign(H) returns the address the first successful
\* assign(H) returned.
C11_AssignIdempotent ==
    (IsAssign(last) /\ last.ok) => firstAddr[last.name] = {last.addr}

\* C12 (as claimed): an address once returned for H keeps the leading octet dns_subnet and
\* an index under which the table holds H, whatever is assigned afterwards; distinct names
\* got distinct addresses; and a reverse lookup of an index the table does not hold yields
\* no hostname.
C12_RoundTrip ==
    /\ \A h \in Names : \A a \in firstAddr[h] : InSubnet(a) /\ get_hostname(table, a.a) = h
    /\ \A h, g \in Names : h # g => firstAddr[h] \cap firstAddr[g] = {}
    /\ (last.op = "socks5" /\ InSubnet(last.target) /\ table[IndexOf(last.target)] = NoName)
          => last.host = NoName

\* C13 (as claimed): in every step of every interleaving the table afterwards holds each
\* hostname under at most one index, every held index is in 1..counter, and every entry
\* held before is still held unchanged.
C13_TableInvariant ==
    [][/\ \A i, j \in 0..MaxIdx : (table'[i] # NoName /\ table'[i] = table'[j]) => i = j
       /\ \A i \in 0..MaxIdx : table'[i] # NoName => (1 <= i /\ i <= idx')
       /\ \A i \in 0..MaxIdx : table[i] # NoName => table'[i] = table[i]]_vars

\* C14 (as claimed): with proxy_dns on, a resolver hook given a numeric literal returns the
\* literal's address, and no literal is ever held by the table.
C14_NoSyntheticForLiterals ==
    /\ \A i \in 0..MaxIdx : ~contains_numeric_ip(table[i])
    /\ (/\ config.proxy_dns
        /\ last.op \in {"gethostbyname", "getaddrinfo"}
        /\ last.ok
        /\ contains_numeric_ip(last.name))
          => (last.addr = NumericIp[last.name] /\ ~InSubnet(last.addr))

\* C15: with proxy_dns off, the three resolver hooks hand the call to libc with the name
\* they were given, the table and its counter stay as constructed, and the SOCKS5 driver
\* never writes a request with ATYP 3.
C15_DnsOffDelegates ==
    ~config.proxy_dns =>
        /\ last.op \in {"gethostbyname", "getaddrinfo", "freeaddrinfo"} => last.via = "libc"
        /\ \A i \in 0..MaxIdx : table[i] = NoName
        /\ idx = 0
        /\ \A t \in Threads : thr[t].pc = "idle"
        /\ last.op = "socks5" => last.atyp \in {1, 4}

C15_Witness ==
    /\ ~config.proxy_dns
    /\ last.op = "getaddrinfo"
    /\ last.via = "libc"
    /\ last.name \in Hostnames

\* C16 (as claimed): a successful assign returns an address whose index is in 1..MaxIdx;
\* once the counter has been beyond MaxIdx it stays there, and every assignment from then
\* on fails.
C16_Exhaustion ==
    /\ (IsAssign(last) /\ last.ok) => IndexOf(last.addr) \in 1..MaxIdx
    /\ exhausted => idx > MaxIdx
    /\ (exhausted /\ IsAssign(last)) => ~last.ok

\* C17: the request the SOCKS5 driver writes has ATYP 3 exactly when the next hop is an
\* IPv4 address with leading octet dns_subnet, proxy_dns is on and the table holds a
\* hostname under its low bits; otherwise ATYP is 1 for IPv4 and 4 for IPv6.
C17_AtypDomainIff ==
    last.op = "socks5" =>
        LET hit == /\ InSubnet(last.target)
                   /\ config.proxy_dns
                   /\ table[IndexOf(last.target)] # NoName
        IN  /\ last.atyp = 3 <=> hit
            /\ ~hit => last.atyp = IF last.target.v = 4 THEN 1 ELSE 4

C17_Witness ==
    /\ last.op = "socks5"
    /\ last.atyp = 3
    /\ last.host \in Hostnames

\* ------------------------------------------------- properties of the HTTP driver
HasTerminator(b) == \E n \in 4..Len(b) : SubSeq(b, n - 3, n) = CRLFCRLF
Digits == {"0", "1", "2", "3", "4", "5", "6", "7", "8", "9"}
StatusLinePrefix(b) ==
    /\ Len(b) >= 9
    /\ SubSeq(b, 1, 5) = <<"H", "T", "T", "P", "/">>
    /\ b[6] \in Digits /\ b[7] = "." /\ b[8] \in Digits /\ b[9] = " "

\* C18 (as claimed): the HTTP driver returns success exactly when the response contains
\* the terminator CR LF CR LF and its bytes at offsets 9, 10, 11 are 2, 0, 0; and it
\* rejects every response whose first nine bytes are not an HTTP/x.y status-line prefix.
C18_HttpAcceptsExactly ==
    http.pc = "done" =>
        LET b == HttpBytes(http)
        IN  /\ http.ok <=> (HasTerminator(b) /\ Len(b) >= 12
                             /\ SubSeq(b, 10, 12) = <<"2", "0", "0">>)
            /\ ~StatusLinePrefix(b) => ~http.ok

\* ------------------------------------------------- properties of poll_retry
\* C19 (as claimed): in one call of poll_retry the time spent waiting in poll, summed
\* over all its poll calls, is at most the timeout the call was given.
C19_WaitBounded ==
    pollst.waited <= pollst.timeout

\* ------------------------------------------------- properties of the SOCKS5 handshake
\* the step spoke to a hop with credentials and read a user/password reply that is not <<1, 0>>
AuthRefused(e) ==
    /\ e.op = "chain_step" /\ e.drv = "Socks5"
    /\ config.proxies[e.hop].auth # {}
    /\ e.authrep # <<>>
    /\ (e.authrep[1] # 1 \/ e.authrep[2] # 0)

\* C20: when a hop with user/password auth answers the auth message with VER # 1 or
\* STATUS # 0, the driver has not written the request and fails, no further chain call
\* follows, and once the hook has returned it returned -1 with errno ECONNREFUSED.
C20_AuthFailureAborts ==
    \A j \in 1..Len(log) :
        AuthRefused(log[j]) =>
            /\ log[j].sent = <<"methods", "auth">>
            /\ ~log[j].ok
            /\ \A k \in (j + 1)..Len(log) : log[k].op \notin {"chain_step", "timed_connect", "dup2"}
            /\ Returned => (ret = -1 /\ errno = "ECONNREFUSED")

C20_Witness ==
    /\ Returned
    /\ \E j \in 1..Len(log) : AuthRefused(log[j]) /\ log[j].authrep = <<1, 1>> /\ log[j].hop = N

\* ------------------------------------------------- properties of the resolver hooks
\* C21 (as claimed): when the assignment fails, gethostbyname returns a null hostent and
\* getaddrinfo returns an EAI_* code; the thread that called the hook goes on running.
C21_NativeErrorResults ==
    (IsAssign(last) /\ ~last.ok) =>
        last.ret = IF last.op = "gethostbyname" THEN "NULL" ELSE "EAI_NONAME"

\* C28 (as claimed): until exhaustion the counter is the number of hostnames the table
\* holds, the n-th distinct hostname being stored under index n.
C28_CounterCountsHostnames ==
    ~exhausted =>
        /\ idx = Cardinality({i \in 0..MaxIdx : table[i] # NoName})
        /\ \A i \in 1..idx : table[i] # NoName

\* ------------------------------------------------- properties of configuration loading
\* C22 (as claimed): every proxy of a loaded configuration has auth only if its protocol
\* is Http or Socks5, whichever form its entry had.
C22_AuthOnlyHttpSocks5 ==
    conf.pc = "loaded" =>
        \A i \in 1..Len(conf.proxies) :
            conf.proxies[i].auth # {} => conf.proxies[i].proto \in {"Http", "Socks5"}

\* C23 (as claimed): no proxy of a loaded configuration has protocol Raw.
C23_NoRawConfigured ==
    conf.pc = "loaded" =>
        \A i \in 1..Len(conf.proxies) : conf.proxies[i].proto # "Raw"

\* ------------------------------------------------- properties of timed_connect
\* C24 (as claimed): whenever timed_connect has returned, the fd is in blocking mode.
C24_BlockingOnReturn ==
    tc.pc = "done" => "O_NONBLOCK" \notin tc.flags

\* C25 (as claimed): when connect gave EINPROGRESS, poll_retry reported the fd ready and
\* SO_ERROR is 0, timed_connect returns Ok, however often poll was interrupted before.
C25_ReadyMeansSuccess ==
    (/\ tc.pc = "done" /\ tc.res = "einprogress"
     /\ pollst.result = "Ok" /\ pollst.ret = "ready"
     /\ tc.soerr = "zero") => tc.ok

\* C26 (as claimed): every poll of one poll_retry call is given the initial timeout minus
\* the time elapsed since the call was entered, and the call returns Timeout exactly when
\* that difference has reached zero.
C26_RemainingIsBudget ==
    /\ pollst.pc = "poll" => pollst.remaining = pollst.timeout - pollst.elapsed
    /\ pollst.pc = "done" =>
          (pollst.result = "Timeout" <=> pollst.timeout - pollst.elapsed <= 0)

\* ------------------------------------------------- properties of read_timeout
\* C27 (as claimed): read_timeout returns Ok exactly when the buffer is full; what it has
\* read is the start of the stream and never longer than the buffer; it returns
\* MissingData when the stream ended before the buffer was full, and Timeout when the
\* last poll returned because its timeout expired.
C27_ReadExact ==
    rd.pc = "done" =>
        /\ rd.result = "Ok" <=> Len(rd.buf) = rd.buflen
        /\ Len(rd.buf) <= rd.buflen
        /\ \A i \in 1..Len(rd.buf) : rd.buf[i] = i
        /\ (rd.eof /\ Len(rd.buf) < rd.buflen) => rd.result = "MissingData"
        /\ rd.lastret = "zero" => rd.result = "Timeout"

\* ------------------------------------------------- properties of the SOCKS5 handshake
IsSocks5(e) == e.op = "chain_step" /\ e.drv = "Socks5"

InSeq(x, q) == \E i \in 1..Len(q) : q[i] = x

\* C29 (as claimed): the method selection written to a SOCKS5 proxy is VER = 5, a count and
\* one method byte, 2 when that proxy has user/password auth and 0 otherwise, and the
\* count is the number of method bytes that follow it, whatever the next hop is.
C29_CountMatchesMethods ==
    \A j \in 1..Len(log) :
        IsSocks5(log[j]) =>
            /\ Len(log[j].methods) = 3
            /\ log[j].methods[1] = 5
            /\ log[j].methods[2] = Len(log[j].methods) - 2
            /\ log[j].methods[3] = IF config.proxies[log[j].hop].auth # {} THEN 2 ELSE 0

\* C30 (as claimed): the SOCKS5 driver writes the user/password message exactly when the
\* accepted selection reply chose method 2; a reply choosing 255 is not accepted and makes
\* the driver fail; the request is written only after the selection reply was accepted
\* and, when the user/password message was written, its reply was <<1, 0>>.
C30_AuthIffSelected ==
    \A j \in 1..Len(log) :
        IsSocks5(log[j]) =>
            /\ InSeq("auth", log[j].sent) <=> log[j].selected = <<2>>
            /\ log[j].selected # <<255>>
            /\ log[j].selected = <<>> => (~log[j].ok /\ log[j].sent = <<"methods">>)
            /\ InSeq("request", log[j].sent) =>
                   /\ log[j].selected # <<>>
                   /\ InSeq("auth", log[j].sent) => log[j].authrep = <<1, 0>>
                   /\ log[j].sent[Len(log[j].sent)] = "request"

\* ------------------------------------------------- properties of the HTTP driver, continued
\* where the first CR LF CR LF of b ends, 0 when b has none
FirstTerminator(b) ==
    LET ends == {n \in 4..Len(b) : SubSeq(b, n - 3, n) = CRLFCRLF}
    IN  IF ends = {} THEN 0 ELSE CHOOSE n \in ends : \A m \in ends : n <= m

\* C35 (as claimed): a response with 2, 0, 0 at offsets 9, 10, 11 whose terminator ends
\* at or before byte 1024 is accepted by the HTTP driver.
C35_TerminatorUpToBufSize ==
    http.pc = "done" =>
        LET b == HttpBytes(http)
            n == FirstTerminator(b)
        IN  (n >= 12 /\ n <= BufSize /\ SubSeq(b, 10, 12) = <<"2", "0", "0">>) => http.ok

\* C39 (as claimed): when the HTTP driver returns success it has read the response up to
\* and including its first CR LF CR LF and not a byte more.
C39_HttpConsumesHeaderOnly ==
    (http.pc = "done" /\ http.ok) => http.len = FirstTerminator(HttpBytes(http))

\* ------------------------------------------------- properties of the resolver hooks, continued
\* C36: with proxy_dns on, a getaddrinfo call for a node that is no numeric address, with
\* AI_NUMERICHOST in the hints, returns EAI_NONAME with its block freed and *res not
\* written, and the step leaves the hostname table and its counter as they were.
C36_NumericHostFails ==
    [][(/\ last' # last
        /\ last'.op = "getaddrinfo"
        /\ last'.numerichost
        /\ ~contains_numeric_ip(last'.name)
        /\ proxy_dns_on(config))
       => (/\ last'.ret = "EAI_NONAME"
           /\ last'.block = "freed"
           /\ ~last'.res
           /\ table' = table
           /\ idx' = idx)]_vars

C36_Witness ==
    /\ last.op = "getaddrinfo"
    /\ last.numerichost
    /\ last.name \in Hostnames
    /\ last.ret = "EAI_NONAME"
    /\ last.block = "freed"
    /\ idx > 0
    /\ ~exhausted
    /\ \A i \in 0..MaxIdx : table[i] # last.name

\* ------------------------------------------------- properties of the hooked connect, continued
EngineOps == {"timed_connect", "chain_step", "connect_proxyc", "dup2"}

\* C37 (as claimed): once the chain engine has run for a call, whatever it returned and
\* whether or not the caller's flags could be put back, the hook does not call the
\* next-in-chain connect on the caller's fd.
C37_RealConnectOnlyOnBypass ==
    \A j \in 1..Len(log) : \A k \in (j + 1)..Len(log) :
        log[j].op \in EngineOps => ~(log[k].op = "connect" /\ log[k].fd = args.sock)

\* C38 (as claimed): in one call of the hook the scratch fd number is closed at most
\* once, so that no close is issued on a number the call has already released (and that
\* another thread may have been given since).
C38_ScratchClosedOnce ==
    /\ Cardinality({j \in 1..Len(log) : log[j].op = "close" /\ log[j].fd = ns}) <= 1
    /\ pc = "engine_err" => fds[ns] # "closed"

WireDone(drv) == wire.pc = "done" /\ wire.drv = drv
PortBytes(port) == <<port \div 256, port % 256>>
ExampleCom == <<101, 120, 97, 109, 112, 108, 101, 46, 99, 111, 109>>

\* C31: the request the SOCKS5 driver writes is 5, 1, 0, then ATYP 3 with a length byte and
\* the name when the next hop maps to a hostname, ATYP 1 with the 4 octets for an IPv4
\* and ATYP 4 with the 16 octets for an IPv6 next hop, then the port high byte first; so
\* 93.184.216.34:80 gives 05 01 00 01 5D B8 D8 22 00 50, and 224.0.0.1:80 mapped to
\* example.com gives ATYP 3, length 11, the name, 00 50.
C31_Socks5RequestBytes ==
    (WireDone("Socks5") /\ wire.err # "panic") =>
        LET t == wire.target
            addr == IF wire.hn # {}
                    THEN LET name == CHOOSE n \in wire.hn : TRUE IN <<3, Len(name)>> \o name
                    ELSE IF t.v = 4 THEN <<1>> \o t.octets
                    ELSE <<4>> \o t.octets
        IN  /\ wire.sent = <<5, 1, 0>> \o addr \o PortBytes(t.port)
            /\ (t.octets = <<93, 184, 216, 34>> /\ t.port = 80 /\ wire.hn = {}) =>
                   wire.sent = <<5, 1, 0, 1, 93, 184, 216, 34, 0, 80>>
            /\ (t.port = 80 /\ wire.hn = {ExampleCom}) =>
                   wire.sent = <<5, 1, 0, 3, 11>> \o ExampleCom \o <<0, 80>>

C31_Witness ==
    /\ WireDone("Socks5")
    /\ wire.target = [v |-> 4, octets |-> <<224, 0, 0, 1>>, port |-> 80]
    /\ wire.hn = {ExampleCom}
    /\ Len(wire.sent) = 18
    /\ wire.ok

\* C32: the SOCKS5 driver accepts the reply to its request exactly when the stream holds a
\* whole reply with VER 5, REP 0, RSV 0 and ATYP 1 or 4, and it has then read the 4
\* header bytes, the 4 or 16 address bytes and the 2 port bytes and nothing after them.
C32_Socks5ReplyConsumed ==
    (WireDone("Socks5") /\ wire.err # "panic") =>
        LET b == wire.stream
            valid == /\ Len(b) >= 4
                     /\ b[1] = 5 /\ b[2] = 0 /\ b[3] = 0 /\ b[4] \in {1, 4}
                     /\ Len(b) >= Len(wire.reply)
        IN  /\ wire.ok <=> valid
            /\ wire.ok => wire.consumed = 4 + (IF b[4] = 1 THEN 4 ELSE 16) + 2
            /\ wire.consumed <= Len(wire.reply)

C32_Witness ==
    /\ WireDone("Socks5")
    /\ wire.ok
    /\ wire.stream[4] = 4
    /\ wire.consumed = 22
    /\ Len(wire.stream) = 24

\* C33: for an IPv6 next hop the SOCKS4 driver fails with nothing written or read; for an
\* IPv4 next hop it writes the 9 bytes 4, 1, the port high byte first, the 4 octets and
\* 0, also when the next hop maps to a hostname.
C33_Socks4RequestBytes ==
    WireDone("Socks4") =>
        LET t == wire.target
        IN  /\ t.v = 6 => (~wire.ok /\ wire.sent = <<>> /\ wire.consumed = 0)
            /\ t.v = 4 => (/\ wire.sent = <<4, 1>> \o PortBytes(t.port) \o t.octets \o <<0>>
                           /\ Len(wire.sent) = 9)

C33_Witness ==
    /\ WireDone("Socks4")
    /\ wire.target = [v |-> 4, octets |-> <<224, 0, 0, 1>>, port |-> 1080]
    /\ wire.hn = {ExampleCom}
    /\ wire.sent = <<4, 1, 4, 56, 224, 0, 0, 1, 0>>

\* C34: for an IPv4 next hop the SOCKS4 driver reads 8 reply bytes and no more, and
\* succeeds exactly when it got all 8 and byte 0 is 0 and byte 1 is 90; a stream that
\* ends before 8 bytes gives MissingData.
C34_Socks4Reply ==
    (WireDone("Socks4") /\ wire.target.v = 4) =>
        LET b == wire.stream
        IN  /\ wire.ok <=> (Len(b) >= 8 /\ b[1] = 0 /\ b[2] = 90)
            /\ wire.consumed = IF Len(b) >= 8 THEN 8 ELSE Len(b)
            /\ (Len(b) < 8 /\ wire.eof) => wire.err = "MissingData"

C34_Witness ==
    /\ WireDone("Socks4")
    /\ wire.ok
    /\ wire.consumed = 8
    /\ Len(wire.stream) = 10

====
